---- MODULE Spec2Model ----
(***************************************************************************)
(* duckpond: the invitation ledger, the rank computation and the matching  *)
(* of members into conversations (src/duckpond/server.py, db.py, model.py).*)
(*                                                                         *)
(* The four DynamoDB tables are the shared state.  One inbound webhook     *)
(* call (handle_sms) is a process; its position `pc` names the storage     *)
(* call it is about to make, its locals are `loc`.  Every action below is  *)
(* one storage call together with the local computation that follows it.   *)
(* Times are whole minutes.                                                *)
(***************************************************************************)
EXTENDS Integers, Sequences, FiniteSets, TLC

\* ---- program constants
N_PEOPLE == 50
StaleMinutes == 5
\* the reserved id "system"; member ids are the positive integers
SYSTEM == 0

\* ---- bounds of the model
NumPhones == 3
NumSeed == 2
MaxMembers == 3
MaxConvs == 2
MaxCount == 4
MaxTime == 6
MaxK == 3
NumPaired == 4

Phones == 1..NumPhones
Procs == {1, 2}
TickSteps == {6}
Commands == {"stop", "invite", "report", "spot", "help", "intro", "mute", "next", "msg"}
OptOuts == {"", "STOP", "HELP"}

VARIABLES
    inviteCount,    \* Config table: item "config", attribute inviteCount
    invitations,    \* Invitations table: set of items, key = number
    members,        \* Members table: id -> item
    conversations,  \* Conversations table: set of items, key = id
    nextMember,     \* uuid4 of the next member item
    nextConv,       \* uuid4 of the next conversation item
    issued,         \* history: the numbers handed to add_invitation, in order
    now,            \* datetime.utcnow(), in minutes
    pc,             \* per request: the storage call it is about to make
    loc,            \* per request: the locals of handle_sms / handle_command
    probe           \* argument and result of a direct call of a ledger query

vars == <<inviteCount, invitations, members, conversations, nextMember, nextConv,
          issued, now, pc, loc, probe>>
tables == <<inviteCount, invitations, members, conversations, nextMember, nextConv, issued>>

\* ---- helpers
Max(a, b) == IF a > b THEN a ELSE b

MaxOf(S) == CHOOSE x \in S : \A y \in S : y <= x

\* every order in which a query may return the items S
Orders(S) == {s \in [1..Cardinality(S) -> S] : \A i, j \in 1..Cardinality(S) : i # j => s[i] # s[j]}

NoArg == [kind |-> "none", phone |-> 0]
InviteArgs == {NoArg, [kind |-> "bad", phone |-> 0], [kind |-> "foreign", phone |-> 0]}
                  \cup {[kind |-> "ok", phone |-> ph] : ph \in Phones}

LocInit ==
    [from |-> 0, optOut |-> "", cmd |-> "", arg |-> NoArg, member |-> {},
     cur |-> <<>>, todo |-> <<>>, acc |-> <<>>, qArg |-> 0, ret |-> "",
     lastId |-> {}, sendText |-> TRUE, invitee |-> {}, count |-> 0,
     pool |-> {}, mid |-> {}, item |-> {}, theirs |-> <<>>, other |-> {},
     newConv |-> FALSE,
     maxInviter |-> 0, rank |-> 0, position |-> 0, position2 |-> 0,
     reply |-> "", out |-> {}, failedAt |-> "", startCount |-> 0, startLedger |-> {},
     startConvs |-> {}, startMembers |-> <<>>]

\* ---- model.py
\* Member.from_db reads id, phoneNumber and created; an item without phoneNumber
\* raises KeyError.  muted is not passed on, so it keeps its default False.
from_db_raises(item) == item.phone = {}

from_db(item) == [id |-> item.id, phone |-> item.phone, muted |-> FALSE]

\* ---- db.py: Members
\* the items the PhoneNumberIndex query may return first
get_by_phone_number(phone_number) ==
    IF \E m \in DOMAIN members : members[m].phone = {phone_number}
    THEN {{members[m]} : m \in {x \in DOMAIN members : members[x].phone = {phone_number}}}
    ELSE {{}}

get_by_id(mid) == IF mid \in DOMAIN members THEN {members[mid]} ELSE {}

put_member(tbl, item) ==
    [m \in DOMAIN tbl \cup {item.id} |-> IF m = item.id THEN item ELSE tbl[m]]

delete_member(tbl, mid) == [m \in DOMAIN tbl \ {mid} |-> tbl[m]]

set_muted_toggles(tbl, mid, muted) == [tbl EXCEPT ![mid].muted = ~tbl[mid].muted]

\* update_item creates the item when there is none with that key
set_muted(tbl, mid, muted) ==
    IF mid \in DOMAIN tbl
    THEN [tbl EXCEPT ![mid].muted = muted]
    ELSE put_member(tbl, [id |-> mid, phone |-> {}, muted |-> muted])

\* ---- db.py: Config
increment_invite_count_twice(count, increment_by) == count + 2 * increment_by

increment_invite_count(count, increment_by) == count + increment_by

\* ---- db.py: Invitations
\* put_item replaces the item that has the same key (id "invitation", number)
add_invitation(tbl, inviter, invitee, number) ==
    {e \in tbl : e.number # number}
        \cup {[number |-> number, inviter |-> inviter, invitee |-> invitee]}

inviter_items_any(mid, min_n) == {e \in invitations : e.number > min_n}

inviter_items(mid, min_n) == {e \in invitations : e.inviter = mid /\ e.number > min_n}

invitee_items(mid, min_n) == {e \in invitations : e.invitee = mid /\ e.number > min_n}

max_number(items) == IF items = {} THEN 0 ELSE MaxOf({e.number : e \in items})

rank_of_no_bump(max_inviter, max_invitee) == Max(max_inviter, max_invitee)

rank_of(max_inviter, max_invitee) == Max(max_inviter - 1, max_invitee)

invite_position(mid, min_n) ==
    rank_of(max_number(inviter_items(mid, min_n)), max_number(invitee_items(mid, min_n)))

\* the query: descending by number, Limit items
query_newest(limit) ==
    {e \in invitations : Cardinality({f \in invitations : f.number > e.number}) < limit}

last_n_keeps_system(n) ==
    LET items == query_newest(Max(n, 1))
    IN  {e.inviter : e \in items} \cup {e.invitee : e \in items}

last_n(n) ==
    LET items == query_newest(Max(n, 1))
    IN  ({e.inviter : e \in items} \cup {e.invitee : e \in items}) \ {SYSTEM}

\* ---- db.py: Conversations
person1_items(mid) == {c \in conversations : c.person1 = mid}

person2_items(mid) == {c \in conversations : c.person2 = mid}

delete_conversation(tbl, conversation_id) == {c \in tbl : c.id # conversation_id}

add_conversation(tbl, id, person1, person2) ==
    tbl \cup {[id |-> id, person1 |-> person1, person2 |-> person2, lastMessage |-> now]}

\* ---- server.py
spot_position(invite_count, rank) == invite_count - rank + 1

min_sequence(invite_count) == Max(invite_count - N_PEOPLE, 1)

is_stale_never(conversation) == FALSE

is_stale(conversation) == conversation.lastMessage < now - StaleMinutes

other_person(conversation, me) ==
    IF conversation.person1 # me THEN conversation.person1 ELSE conversation.person2

partner_of(conversation, me) ==
    IF me = conversation.person2 THEN conversation.person1 ELSE conversation.person2

TheOne(S) == CHOOSE x \in S : TRUE

\* ---- initial state: counter 0, empty ledger, NumSeed members in the directory
Init ==
    /\ inviteCount = 0
    /\ invitations = {}
    /\ members = [m \in 1..NumSeed |-> [id |-> m, phone |-> {m}, muted |-> FALSE]]
    /\ conversations = {}
    /\ nextMember = NumSeed + 1
    /\ nextConv = 1
    /\ issued = <<>>
    /\ now = 0
    /\ pc = [p \in Procs |-> "idle"]
    /\ loc = [p \in Procs |-> LocInit]
    /\ probe = [applied |-> FALSE, k |-> 0, result |-> {}]

\* ---- one request: handle_sms and the handle_command it calls
Me(l) == TheOne(l.member)

Go(p, label, l) ==
    /\ pc' = [pc EXCEPT ![p] = label]
    /\ loc' = [loc EXCEPT ![p] = l]

Finish_no_reply(p, l, reply) == Go(p, "done", [l EXCEPT !.reply = ""])

Finish(p, l, reply) == Go(p, "done", [l EXCEPT !.reply = reply])

\* an exception leaves handle_sms: the request ends with an internal error
Raise(p, l) == Finish(p, l, "error")

CallConversations(p, l, mid, ret) == Go(p, "gc1", [l EXCEPT !.qArg = mid, !.ret = ret])

CallPosition(p, l, mid, ret) == Go(p, "ip1", [l EXCEPT !.qArg = mid, !.ret = ret])

\* handle_command up to its first storage call
handle_command(p, l) ==
    IF l.member = {} THEN Finish(p, l, "not_member")
    ELSE CASE l.cmd = "stop" -> Go(p, "stop_delete", l)
           [] l.cmd = "invite" ->
                CASE l.arg.kind = "none" -> Finish(p, l, "usage")
                  [] l.arg.kind = "bad" -> Finish(p, l, "parse_error")
                  [] l.arg.kind = "foreign" -> Finish(p, l, "not_us")
                  [] OTHER -> Go(p, "inv_lookup", l)
           [] l.cmd = "report" -> CallConversations(p, l, Me(l), "report_del")
           [] l.cmd \in {"spot", "intro"} -> Go(p, "spot_count", l)
           [] l.cmd = "help" -> Finish(p, l, "")
           [] l.cmd = "mute" -> CallConversations(p, l, Me(l), "mute_del")
           [] l.cmd = "next" ->
                CallConversations(p, [l EXCEPT !.sendText = FALSE], Me(l), "next_del")
           [] OTHER -> CallConversations(p, l, Me(l), "def_unmute")

\* handle_sms: resolve the sender, then the opt-out webhook or the command
HandleSms(p, from_, opt_out_type, command, arg) ==
    /\ pc[p] = "idle"
    /\ \E member \in get_by_phone_number(from_) :
         LET l == [LocInit EXCEPT !.from = from_, !.optOut = opt_out_type,
                                  !.cmd = IF opt_out_type = "STOP" THEN "stop" ELSE command,
                                  !.arg = arg,
                                  !.member = {m.id : m \in member},
                                  !.startCount = inviteCount,
                                  !.startLedger = invitations,
                                  !.startConvs = conversations,
                                  !.startMembers = members]
         IN  IF opt_out_type \notin {"", "STOP"} THEN Finish(p, l, "")
             ELSE handle_command(p, l)
    /\ UNCHANGED <<tables, now, probe>>

\* the response is returned
Return(p) ==
    /\ pc[p] = "done"
    /\ Go(p, "idle", LocInit)
    /\ UNCHANGED <<tables, now, probe>>

\* ---- stop
StopDelete(p) ==
    /\ pc[p] = "stop_delete"
    /\ members' = delete_member(members, Me(loc[p]))
    /\ Go(p, "stop_dec", loc[p])
    /\ UNCHANGED <<inviteCount, invitations, conversations, nextMember, nextConv, issued, now,
                   probe>>

StopDecrement(p) ==
    /\ pc[p] = "stop_dec"
    /\ inviteCount' = increment_invite_count(inviteCount, -1)
    /\ CallConversations(p, loc[p], Me(loc[p]), "def_unmute")
    /\ UNCHANGED <<invitations, members, conversations, nextMember, nextConv, issued, now,
                   probe>>

\* ---- invite
InviteLookup(p) ==
    /\ pc[p] = "inv_lookup"
    /\ \E found \in get_by_phone_number(loc[p].arg.phone) :
         IF found # {}
         THEN Go(p, "inv_lastn", [loc[p] EXCEPT !.invitee = {m.id : m \in found}])
         ELSE Go(p, "inv_add_check", loc[p])
    /\ UNCHANGED <<tables, now, probe>>

\* add_member looks the number up again; an existing member makes it return
\* False, on which Member.from_db raises
InviteAddCheck(p) ==
    /\ pc[p] = "inv_add_check"
    /\ IF get_by_phone_number(loc[p].arg.phone) # {{}}
       THEN Raise(p, loc[p])
       ELSE Go(p, "inv_add_put", loc[p])
    /\ UNCHANGED <<tables, now, probe>>

InviteAddPut(p) ==
    /\ pc[p] = "inv_add_put"
    /\ nextMember <= MaxMembers
    /\ members' = put_member(members, [id |-> nextMember, phone |-> {loc[p].arg.phone},
                                       muted |-> FALSE])
    /\ nextMember' = nextMember + 1
    /\ Go(p, "inv_lastn", [loc[p] EXCEPT !.invitee = {nextMember}])
    /\ UNCHANGED <<inviteCount, invitations, conversations, nextConv, issued, now,
                   probe>>

\* the same with the counter raised before the check
InviteLastN_counts_first(p) ==
    /\ pc[p] = "inv_lastn"
    /\ inviteCount + 2 <= MaxCount
    /\ inviteCount' = increment_invite_count(inviteCount, 2)
    /\ IF TheOne(loc[p].invitee) \in last_n(N_PEOPLE)
       THEN Finish(p, loc[p], "already")
       ELSE Go(p, "inv_read", loc[p])
    /\ UNCHANGED <<invitations, members, conversations, nextMember, nextConv, issued, now,
                   probe>>

InviteLastN(p) ==
    /\ pc[p] = "inv_lastn"
    /\ IF TheOne(loc[p].invitee) \in last_n(N_PEOPLE)
       THEN Finish(p, loc[p], "already")
       ELSE Go(p, "inv_inc", loc[p])
    /\ UNCHANGED <<tables, now, probe>>

InviteIncrement(p) ==
    /\ pc[p] = "inv_inc"
    /\ inviteCount + 2 <= MaxCount
    /\ inviteCount' = increment_invite_count(inviteCount, 2)
    /\ Go(p, "inv_read", loc[p])
    /\ UNCHANGED <<invitations, members, conversations, nextMember, nextConv, issued, now,
                   probe>>

InviteRead(p) ==
    /\ pc[p] = "inv_read"
    /\ Go(p, "inv_write", [loc[p] EXCEPT !.count = inviteCount])
    /\ UNCHANGED <<tables, now, probe>>

InviteWrite(p) ==
    /\ pc[p] = "inv_write"
    /\ invitations' = add_invitation(invitations, Me(loc[p]), TheOne(loc[p].invitee),
                                     loc[p].count)
    /\ issued' = Append(issued, loc[p].count)
    /\ Finish(p, [loc[p] EXCEPT !.out = {[to |-> loc[p].arg.phone, kind |-> "welcome"]}],
              "invited")
    /\ UNCHANGED <<inviteCount, members, conversations, nextMember, nextConv, now, probe>>

\* ---- the default flow's tail: notify a new partner, forward the text
send(p, l) ==
    LET to == TheOne(l.other).phone
        started == IF l.newConv THEN {[to |-> to, kind |-> "started"]} ELSE {}
        text == IF l.sendText THEN {[to |-> to, kind |-> "text"]} ELSE {}
    IN  Go(p, "done", [l EXCEPT !.out = started \cup text])

\* ---- invite_position: the InviterIndex query, then the InviteeIndex query
InvitePositionInviter(p) ==
    /\ pc[p] = "ip1"
    /\ Go(p, "ip2", [loc[p] EXCEPT !.maxInviter =
            max_number(inviter_items(loc[p].qArg, min_sequence(loc[p].count)))])
    /\ UNCHANGED <<tables, now, probe>>

after_position(p, l) ==
    CASE l.ret = "spot_reply" ->
           Finish(p, [l EXCEPT !.position = spot_position(l.count, l.rank)], l.cmd)
      [] l.ret = "def_getother" ->
           Go(p, "def_getother", [l EXCEPT !.position = spot_position(l.count, l.rank),
                                           !.reply = "now_talking"])
      [] OTHER -> send(p, [l EXCEPT !.position2 = spot_position(l.count, l.rank)])

InvitePositionInvitee(p) ==
    /\ pc[p] = "ip2"
    /\ after_position(p, [loc[p] EXCEPT !.rank =
            rank_of(loc[p].maxInviter,
                    max_number(invitee_items(loc[p].qArg, min_sequence(loc[p].count))))])
    /\ UNCHANGED <<tables, now, probe>>

\* ---- spot, intro
SpotCount(p) ==
    /\ pc[p] = "spot_count"
    /\ CallPosition(p, [loc[p] EXCEPT !.count = inviteCount], Me(loc[p]), "spot_reply")
    /\ UNCHANGED <<tables, now, probe>>

\* ---- report, mute, next: delete the caller's conversations one by one
after_delete(p, l) ==
    CASE l.ret = "report_del" -> Finish(p, l, "reported")
      [] l.ret = "mute_del" -> Go(p, "mute_set", l)
      [] OTHER ->
           \* next: ask again only if nothing was just cleared out
           IF l.cur # <<>>
           THEN Go(p, "def_unmute", [l EXCEPT !.cur = <<>>])
           ELSE CallConversations(p, l, Me(l), "def_unmute")

delete_loop(p, l) ==
    IF l.todo # <<>> THEN Go(p, l.ret, l) ELSE after_delete(p, l)

DeleteConversation(p) ==
    /\ pc[p] \in {"report_del", "mute_del", "next_del"}
    /\ conversations' = delete_conversation(conversations, Head(loc[p].todo).id)
    /\ delete_loop(p, [loc[p] EXCEPT !.todo = Tail(loc[p].todo)])
    /\ UNCHANGED <<inviteCount, invitations, members, nextMember, nextConv, issued, now,
                   probe>>

MuteSet(p) ==
    /\ pc[p] = "mute_set"
    /\ members' = set_muted(members, Me(loc[p]), TRUE)
    /\ Finish(p, loc[p], "muted")
    /\ UNCHANGED <<inviteCount, invitations, conversations, nextMember, nextConv, issued, now,
                   probe>>

\* ---- find_new_conversation
candidate_ids_keeps_caller(ids, member_id, last_mid) == ids \ last_mid

candidate_ids(ids, member_id, last_mid) == (ids \ {member_id}) \ last_mid

find_next(p, l) ==
    IF l.pool = {} THEN Finish(p, [l EXCEPT !.mid = {}], "no_one") ELSE Go(p, "find_get", l)

\* ---- get_conversations_for_member: the Person1Index query, then the Person2Index query
GetConversationsPerson1(p) ==
    /\ pc[p] = "gc1"
    /\ \E items \in Orders(person1_items(loc[p].qArg)) :
         Go(p, "gc2", [loc[p] EXCEPT !.acc = items])
    /\ UNCHANGED <<tables, now, probe>>

after_conversations(p, l, items) ==
    CASE l.ret \in {"report_del", "mute_del"} ->
           delete_loop(p, [l EXCEPT !.cur = items, !.todo = items])
      [] l.ret = "next_del" ->
           delete_loop(p, [l EXCEPT !.cur = items, !.todo = items,
                             !.lastId = IF items # <<>>
                                        THEN {other_person(items[Len(items)], Me(l))}
                                        ELSE {}])
      [] l.ret = "def_unmute" -> Go(p, "def_unmute", [l EXCEPT !.cur = items])
      [] OTHER ->
           \* find_new_conversation: any stale conversation of the candidate ends the search
           IF \E i \in 1..Len(items) : is_stale(items[i])
           THEN Finish(p, [l EXCEPT !.theirs = items, !.mid = {}], "no_one")
           ELSE Go(p, "find_add", [l EXCEPT !.theirs = items])

GetConversationsPerson2(p) ==
    /\ pc[p] = "gc2"
    /\ \E items \in Orders(person2_items(loc[p].qArg)) :
         after_conversations(p, [loc[p] EXCEPT !.acc = <<>>], loc[p].acc \o items)
    /\ UNCHANGED <<tables, now, probe>>

\* ---- the default flow
Unmute(p) ==
    /\ pc[p] = "def_unmute"
    /\ members' = set_muted(members, Me(loc[p]), FALSE)
    /\ IF loc[p].cur # <<>>
       THEN Go(p, "def_getother",
               [loc[p] EXCEPT !.mid = {partner_of(loc[p].cur[1], Me(loc[p]))}])
       ELSE Go(p, "find_count", [loc[p] EXCEPT !.newConv = TRUE])
    /\ UNCHANGED <<inviteCount, invitations, conversations, nextMember, nextConv, issued, now,
                   probe>>

FindCount(p) ==
    /\ pc[p] = "find_count"
    /\ Go(p, "find_lastn", [loc[p] EXCEPT !.count = inviteCount])
    /\ UNCHANGED <<tables, now, probe>>

FindLastN(p) ==
    /\ pc[p] = "find_lastn"
    /\ find_next(p, [loc[p] EXCEPT !.pool =
                        candidate_ids(last_n(loc[p].count), Me(loc[p]), loc[p].lastId)])
    /\ UNCHANGED <<tables, now, probe>>

\* the next candidate of the shuffled list: any of those left
FindGet(p) ==
    /\ pc[p] = "find_get"
    /\ \E mid \in loc[p].pool :
         LET l == [loc[p] EXCEPT !.pool = loc[p].pool \ {mid}, !.item = get_by_id(mid)]
         IN  IF l.item = {} THEN find_next(p, l)
             ELSE IF from_db_raises(TheOne(l.item)) THEN Raise(p, l)
             ELSE IF from_db(TheOne(l.item)).muted THEN find_next(p, l)
             ELSE CallConversations(p, [l EXCEPT !.mid = {mid}], mid, "find_add")
    /\ UNCHANGED <<tables, now, probe>>

FindAdd(p) ==
    /\ pc[p] = "find_add"
    /\ nextConv <= MaxConvs
    /\ conversations' = add_conversation(conversations, nextConv, Me(loc[p]),
                                         TheOne(loc[p].mid))
    /\ nextConv' = nextConv + 1
    /\ Go(p, "new_count1", loc[p])
    /\ UNCHANGED <<inviteCount, invitations, members, nextMember, issued, now,
                   probe>>

NewCount1(p) ==
    /\ pc[p] = "new_count1"
    /\ CallPosition(p, [loc[p] EXCEPT !.count = inviteCount], TheOne(loc[p].mid),
                    "def_getother")
    /\ UNCHANGED <<tables, now, probe>>

GetOther(p) ==
    /\ pc[p] = "def_getother"
    /\ LET l == [loc[p] EXCEPT !.other = get_by_id(TheOne(loc[p].mid))]
       IN  IF l.other = {} THEN Finish(p, l, "wrong")
           ELSE IF from_db_raises(TheOne(l.other)) THEN Raise(p, l)
           ELSE IF l.newConv THEN Go(p, "new_count2", l)
           ELSE send(p, l)
    /\ UNCHANGED <<tables, now, probe>>

NewCount2(p) ==
    /\ pc[p] = "new_count2"
    /\ CallPosition(p, [loc[p] EXCEPT !.count = inviteCount], Me(loc[p]), "def_send")
    /\ UNCHANGED <<tables, now, probe>>

\* ---- time passes
Tick ==
    /\ \E d \in TickSteps : now + d <= MaxTime /\ now' = now + d
    /\ UNCHANGED <<tables, pc, loc, probe>>

\* ---- the requests, one at a time
Step(p) ==
    \/ StopDelete(p) \/ StopDecrement(p)
    \/ InviteLookup(p) \/ InviteAddCheck(p) \/ InviteAddPut(p) \/ InviteLastN(p)
    \/ InviteIncrement(p) \/ InviteRead(p) \/ InviteWrite(p)
    \/ InvitePositionInviter(p) \/ InvitePositionInvitee(p) \/ SpotCount(p)
    \/ GetConversationsPerson1(p) \/ GetConversationsPerson2(p)
    \/ DeleteConversation(p) \/ MuteSet(p)
    \/ Unmute(p) \/ FindCount(p) \/ FindLastN(p) \/ FindGet(p) \/ FindAdd(p)
    \/ NewCount1(p) \/ GetOther(p) \/ NewCount2(p)
    \/ Return(p)

Receive(p) ==
    \E from_ \in Phones :
        \/ \E command \in Commands \ {"invite"} : HandleSms(p, from_, "", command, NoArg)
        \/ \E arg \in InviteArgs : HandleSms(p, from_, "", "invite", arg)
        \/ \E opt_out_type \in OptOuts \ {""} : HandleSms(p, from_, opt_out_type, "stop", NoArg)

Next == Tick \/ Receive(1) \/ Step(1)

Spec == Init /\ [][Next]_vars

\* ---- concurrent invite commands, interleaved at the storage calls
ReceiveInvite(p) ==
    \E from_ \in Phones, arg \in InviteArgs : HandleSms(p, from_, "", "invite", arg)

InviteStep(p) ==
    \/ InviteLookup(p) \/ InviteAddCheck(p) \/ InviteAddPut(p) \/ InviteLastN(p)
    \/ InviteIncrement(p) \/ InviteRead(p) \/ InviteWrite(p)
    \/ Return(p)

NextInvite == \E p \in Procs : ReceiveInvite(p) \/ InviteStep(p)

SpecInvite == Init /\ [][NextInvite]_vars

\* ---- two concurrent plain messages, each one request, after member 1 invited
\* member 2 and member 2 invited member 3: nobody is in a conversation
InitMatch ==
    /\ inviteCount = 4
    /\ invitations = {[number |-> 2, inviter |-> 1, invitee |-> 2],
                      [number |-> 4, inviter |-> 2, invitee |-> 3]}
    /\ members = [m \in 1..3 |-> [id |-> m, phone |-> {m}, muted |-> FALSE]]
    /\ conversations = {}
    /\ nextMember = 4
    /\ nextConv = 1
    /\ issued = <<2, 4>>
    /\ now = 0
    /\ pc = [p \in Procs |-> "idle"]
    /\ loc = [p \in Procs |-> LocInit]
    /\ probe = [applied |-> FALSE, k |-> 0, result |-> {}]

ReceiveMessage(p) == \E from_ \in Phones : HandleSms(p, from_, "", "msg", NoArg)

MatchStep(p) ==
    \/ GetConversationsPerson1(p) \/ GetConversationsPerson2(p)
    \/ Unmute(p) \/ FindCount(p) \/ FindLastN(p) \/ FindGet(p) \/ FindAdd(p)
    \/ NewCount1(p) \/ InvitePositionInviter(p) \/ InvitePositionInvitee(p)
    \/ GetOther(p) \/ NewCount2(p)

NextMatch == Tick \/ \E p \in Procs : ReceiveMessage(p) \/ MatchStep(p)

SpecMatch == InitMatch /\ [][NextMatch]_vars

\* ---- plain messages among NumPaired members, each invited by the one before,
\* after member 1 sent a first message and was paired with member 2
InitStale ==
    /\ inviteCount = 2 * (NumPaired - 1)
    /\ invitations = {[number |-> 2 * m, inviter |-> m, invitee |-> m + 1] :
                          m \in 1..(NumPaired - 1)}
    /\ members = [m \in 1..NumPaired |-> [id |-> m, phone |-> {m}, muted |-> FALSE]]
    /\ conversations = {[id |-> 0, person1 |-> 1, person2 |-> 2, lastMessage |-> 0]}
    /\ nextMember = NumPaired + 1
    /\ nextConv = 1
    /\ issued = [m \in 1..(NumPaired - 1) |-> 2 * m]
    /\ now = 0
    /\ pc = [p \in Procs |-> "idle"]
    /\ loc = [p \in Procs |-> LocInit]
    /\ probe = [applied |-> FALSE, k |-> 0, result |-> {}]

ReceivePaired(p) == \E from_ \in 1..NumPaired : HandleSms(p, from_, "", "msg", NoArg)

NextStale == Tick \/ \E p \in Procs : ReceivePaired(p) \/ MatchStep(p)

SpecStale == InitStale /\ [][NextStale]_vars

\* ---- invite commands, one at a time, with storage calls that may fail
\* a ClientError is re-raised by the accessor and leaves handle_sms
StorageError(p) ==
    /\ pc[p] \notin {"idle", "done"}
    /\ Go(p, "done", [loc[p] EXCEPT !.reply = "error", !.failedAt = pc[p]])
    /\ UNCHANGED <<tables, now, probe>>

NextFail == ReceiveInvite(1) \/ InviteStep(1) \/ StorageError(1)

SpecFail == Init /\ [][NextFail]_vars

\* ---- member 1 invited phone 3 and was paired with the new member 3, then the
\* seeded member 2 was paired with member 3 as well; 0 and -1 are the uuids of
\* the two conversations
InitDouble ==
    /\ inviteCount = 2
    /\ invitations = {[number |-> 2, inviter |-> 1, invitee |-> 3]}
    /\ members = [m \in 1..3 |-> [id |-> m, phone |-> {m}, muted |-> FALSE]]
    /\ conversations = {[id |-> -1, person1 |-> 1, person2 |-> 3, lastMessage |-> 0],
                        [id |-> 0, person1 |-> 2, person2 |-> 3, lastMessage |-> 0]}
    /\ nextMember = 4
    /\ nextConv = 1
    /\ issued = <<2>>
    /\ now = 0
    /\ pc = [p \in Procs |-> "idle"]
    /\ loc = [p \in Procs |-> LocInit]
    /\ probe = [applied |-> FALSE, k |-> 0, result |-> {}]

\* ---- mute commands, repeated and retried, with storage calls that may fail
ReceiveMute(p) == \E from_ \in Phones : HandleSms(p, from_, "", "mute", NoArg)

MuteStep(p) ==
    \/ GetConversationsPerson1(p) \/ GetConversationsPerson2(p)
    \/ DeleteConversation(p) \/ MuteSet(p)
    \/ Return(p)

NextMute == \E p \in Procs : ReceiveMute(p) \/ MuteStep(p) \/ StorageError(p)

SpecMute == InitDouble /\ [][NextMute]_vars

\* ---- next commands, one at a time, from the same state
ReceiveNext(p) == \E from_ \in Phones : HandleSms(p, from_, "", "next", NoArg)

NextStep(p) ==
    \/ GetConversationsPerson1(p) \/ GetConversationsPerson2(p)
    \/ DeleteConversation(p)
    \/ Unmute(p) \/ FindCount(p) \/ FindLastN(p) \/ FindGet(p) \/ FindAdd(p)
    \/ NewCount1(p) \/ InvitePositionInviter(p) \/ InvitePositionInvitee(p)
    \/ GetOther(p) \/ NewCount2(p)
    \/ Return(p)

NextNext == Tick \/ ReceiveNext(1) \/ NextStep(1)

SpecNext == InitDouble /\ [][NextNext]_vars

\* ---- two concurrent stops, the text "stop" or the opt-out webhook, each one
\* request, from the state of InitMatch
ReceiveStop(p) ==
    \E from_ \in Phones, opt_out_type \in {"", "STOP"} :
        HandleSms(p, from_, opt_out_type, "stop", NoArg)

NextStop == \E p \in Procs : ReceiveStop(p) \/ StopDelete(p) \/ StopDecrement(p) \/ MatchStep(p)

SpecStop == InitMatch /\ [][NextStop]_vars

\* ---- last_n called directly on any ledger of at most MaxK edges
LedgerOf(f) ==
    {[number |-> n, inviter |-> f[n][1], invitee |-> f[n][2]] : n \in DOMAIN f}

InitLedger ==
    /\ inviteCount = 0
    /\ \E D \in SUBSET (1..MaxK) :
         \E f \in [D -> (0..MaxMembers) \X (1..MaxMembers)] : invitations = LedgerOf(f)
    /\ members = [m \in 1..NumSeed |-> [id |-> m, phone |-> {m}, muted |-> FALSE]]
    /\ conversations = {}
    /\ nextMember = NumSeed + 1
    /\ nextConv = 1
    /\ issued = <<>>
    /\ now = 0
    /\ pc = [p \in Procs |-> "idle"]
    /\ loc = [p \in Procs |-> LocInit]
    /\ probe = [applied |-> FALSE, k |-> 0, result |-> {}]

ApplyLastN(k) ==
    /\ ~probe.applied
    /\ probe' = [applied |-> TRUE, k |-> k, result |-> last_n(k)]
    /\ UNCHANGED <<tables, now, pc, loc>>

NextLedger == \E k \in 0..MaxK : ApplyLastN(k)

SpecLedger == InitLedger /\ [][NextLedger]_vars

\* ---- add_invitation called directly, any number of times, on any ledger;
\* probe keeps the number and the two participants of the last call
RecordInvitation(inviter, invitee, number) ==
    /\ invitations' = add_invitation(invitations, inviter, invitee, number)
    /\ probe' = [applied |-> TRUE, k |-> number, result |-> {inviter, invitee}]
    /\ UNCHANGED <<inviteCount, members, conversations, nextMember, nextConv, issued, now,
                   pc, loc>>

NextRecord ==
    \E inviter, invitee \in 1..MaxMembers, number \in 1..(MaxK + 1) :
        RecordInvitation(inviter, invitee, number)

SpecRecord == InitLedger /\ [][NextRecord]_vars

\* ======================================================================
\* Claims
\* ======================================================================
Quiet == \A p \in Procs : pc[p] \in {"idle", "done"}

ConversationsOf(tbl, m) == {c \in tbl : m \in {c.person1, c.person2}}

HighestIssued ==
    IF issued = <<>> THEN 0 ELSE MaxOf({issued[i] : i \in 1..Len(issued)})

\* C1: with invite commands interleaved at the storage calls, once no request
\* is in flight the sequence numbers in the ledger are exactly {2, 4, ..., 2n},
\* n the number of invites that succeeded, and no number was issued twice.
C1_SequenceNumbersExact ==
    Quiet =>
        /\ {e.number : e \in invitations} = {2 * k : k \in 1..Len(issued)}
        /\ \A i, j \in 1..Len(issued) : i # j => issued[i] # issued[j]

\* C2: with requests processed one at a time, between requests every member
\* is a participant of at most one conversation.
C2_AtMostOneConversation ==
    pc[1] = "idle" =>
        \A m \in 1..MaxMembers : Cardinality(ConversationsOf(conversations, m)) <= 1

\* C3: two searches by different members that both began while the candidate
\* had no conversation never both create a conversation with that candidate,
\* which would leave it a participant of two conversations.
C3_NoDoubleBooking ==
    \A p, q \in Procs :
        (/\ p # q
         /\ pc[p] = "done" /\ pc[q] = "done"
         /\ loc[p].member # loc[q].member
         /\ loc[p].newConv /\ loc[q].newConv
         /\ loc[p].mid # {}
         /\ loc[p].mid = loc[q].mid)
        => \E c \in loc[p].mid :
              \/ ConversationsOf(loc[p].startConvs, c) # {}
              \/ ConversationsOf(loc[q].startConvs, c) # {}
              \/ Cardinality(ConversationsOf(conversations, c)) <= 1

\* C4: a search never settles on the caller's own id nor on the excluded id,
\* neither as a candidate still to be examined nor as the partner found, and
\* no conversation has the same member as both participants.
C4_NeverSelfNorExcluded ==
    /\ \A c \in conversations : c.person1 # c.person2
    /\ \A p \in Procs :
         loc[p].newConv =>
            /\ loc[p].mid \cap (loc[p].member \cup loc[p].lastId) = {}
            /\ loc[p].pool \cap (loc[p].member \cup loc[p].lastId) = {}

\* a next command that excluded its last partner and found another one
C4_Witness ==
    /\ pc[1] = "done"
    /\ loc[1].cmd = "next"
    /\ loc[1].lastId # {}
    /\ loc[1].newConv
    /\ loc[1].mid # {}
    /\ loc[1].reply = "now_talking"
    /\ \E c \in conversations : c.person1 \in loc[1].member /\ c.person2 \in loc[1].mid

\* C5: a conversation is never created with a candidate whose stored muted
\* flag was true when the candidate was examined, nor with one without a
\* directory record.
C5_MutedNeverPaired ==
    \A p \in Procs :
        pc[p] = "new_count1" =>
            /\ loc[p].item # {}
            /\ \A item \in loc[p].item : ~item.muted

\* C6: an edge, once written, stays in the ledger as it is, and between
\* requests the ledger holds one edge per successful invitation.
C6_AppendOnly ==
    [][/\ \A e \in invitations : e \in invitations'
       /\ pc'[1] = "idle" => Cardinality(invitations') = Len(issued')]_vars

\* C7: between requests the counter equals the highest sequence number ever
\* issued, 0 when none was.
C7_CounterIsHighestIssued == pc[1] = "idle" => inviteCount = HighestIssued

\* C8: an invite whose counter read or edge write fails with a storage error
\* ends with the counter and the ledger as they were before the request.
C8_IncrementUndone ==
    \A p \in Procs :
        (pc[p] = "done" /\ loc[p].failedAt \in {"inv_read", "inv_write"}) =>
            /\ inviteCount = loc[p].startCount
            /\ invitations = loc[p].startLedger

MaxAsInviter(m, min) ==
    LET S == {n \in {e.number : e \in invitations} :
                 n > min /\ \E e \in invitations : e.number = n /\ e.inviter = m}
    IN  IF S = {} THEN 0 ELSE CHOOSE n \in S : \A k \in S : k <= n

MaxAsInvitee(m, min) ==
    LET S == {n \in {e.number : e \in invitations} :
                 n > min /\ \E e \in invitations : e.number = n /\ e.invitee = m}
    IN  IF S = {} THEN 0 ELSE CHOOSE n \in S : \A k \in S : k <= n

Edge(a, b, n) == [number |-> n, inviter |-> a, invitee |-> b]

\* C9: rank(m, min) = max(maxAsInviter - 1, maxAsInvitee) on every ledger the
\* program reaches, the rank and the position that spot and intro reply with
\* are computed from it, and with edges (A,B,2), (B,C,4) and counter 4 the
\* rank of B above 1 is 3 and B's spot is 2.
C9_Rank ==
    /\ pc[1] = "idle" =>
         \A m \in 0..MaxMembers, min \in -1..MaxCount :
             invite_position(m, min) = Max(MaxAsInviter(m, min) - 1, MaxAsInvitee(m, min))
    /\ (pc[1] = "done" /\ loc[1].reply \in {"spot", "intro"}) =>
         LET min == Max(inviteCount - N_PEOPLE, 1)
             me == Me(loc[1])
         IN  /\ loc[1].rank = Max(MaxAsInviter(me, min) - 1, MaxAsInvitee(me, min))
             /\ loc[1].position = inviteCount - loc[1].rank + 1
    /\ (pc[1] \in {"idle", "done"} /\ inviteCount = 4) =>
         \A a, b, c \in 1..MaxMembers :
             invitations = {Edge(a, b, 2), Edge(b, c, 4)}
             => /\ invite_position(b, 1) = 3
                /\ spot_position(inviteCount,
                                 invite_position(b, min_sequence(inviteCount))) = 2
                /\ (loc[1].reply = "spot" /\ loc[1].member = {b}) => loc[1].position = 2

\* member 1 invited member 2, member 2 invited member 3, member 2 asked for its spot
C9_Witness ==
    /\ pc[1] = "done"
    /\ loc[1].reply = "spot"
    /\ loc[1].member = {2}
    /\ issued = <<2, 4>>
    /\ inviteCount = 4
    /\ invitations = {Edge(1, 2, 2), Edge(2, 3, 4)}
    /\ loc[1].rank = 3
    /\ loc[1].position = 2

\* the k edges with the highest sequence numbers
TopEdges(k) ==
    CHOOSE T \in SUBSET invitations :
        /\ Cardinality(T) = IF k < Cardinality(invitations) THEN k
                            ELSE Cardinality(invitations)
        /\ \A e \in T, f \in invitations \ T : e.number > f.number

ParticipantsOf(T) == {e.inviter : e \in T} \cup {e.invitee : e \in T}

\* C10: for every ledger and every k >= 0, last_n(k) does not contain the
\* reserved id, has at most 2k ids, all of them participants of the k newest edges.
C10_AtMostTwoK ==
    probe.applied =>
        /\ SYSTEM \notin probe.result
        /\ Cardinality(probe.result) <= 2 * probe.k
        /\ probe.result \subseteq ParticipantsOf(TopEdges(probe.k))

\* C10 as amended: a limit of 0 is served as a limit of 1, so the bound is
\* 2 * max(k, 1) ids, participants of the max(k, 1) newest edges.
C10_AtMostTwoMaxK1 ==
    probe.applied =>
        /\ SYSTEM \notin probe.result
        /\ Cardinality(probe.result) <= 2 * Max(probe.k, 1)
        /\ probe.result \subseteq ParticipantsOf(TopEdges(Max(probe.k, 1)))

\* the two newest of three edges, one of them the bootstrap edge, give three ids
C10_Witness ==
    /\ probe.applied
    /\ probe.k = 2
    /\ Cardinality(invitations) = 3
    /\ \E e \in TopEdges(2) : e.inviter = SYSTEM
    /\ Cardinality(probe.result) = 3

Range(s) == {s[i] : i \in 1..Len(s)}

\* C11: when the conversations returned for the candidate being examined hold
\* one whose lastMessage is more than 5 minutes old, the search ends there:
\* it returns no partner and creates no conversation, whatever candidates are
\* left in the shuffled list.
C11_AbortOnStale ==
    [][\A p \in Procs :
         (/\ pc[p] = "gc2" /\ loc[p].ret = "find_add" /\ pc'[p] # "gc2"
          /\ \E c \in Range(loc[p].acc) \cup person2_items(loc[p].qArg) :
                c.lastMessage < now - StaleMinutes)
         => /\ pc'[p] = "done"
            /\ loc'[p].reply = "no_one"
            /\ loc'[p].mid = {}
            /\ conversations' = conversations]_vars

\* a search that ended on a stale conversation of its first candidate while a
\* member without any conversation was still in the list
C11_Witness ==
    \E p \in Procs :
        /\ pc[p] = "done"
        /\ loc[p].newConv
        /\ loc[p].reply = "no_one"
        /\ \E c \in Range(loc[p].theirs) : c.lastMessage < now - StaleMinutes
        /\ \E m \in loc[p].pool :
              /\ m \in DOMAIN members
              /\ ~members[m].muted
              /\ ConversationsOf(conversations, m) = {}
        /\ ConversationsOf(conversations, Me(loc[p])) = {}

Acts(p) == pc'[p] # pc[p] \/ loc'[p] # loc[p]

\* C12: a mute that completes leaves the member's muted flag true and the
\* member without conversations; a mute processed in a state that is already
\* so (a second mute in a row, a retry) changes neither table at any of its
\* steps; and deleting a conversation row that is already gone changes
\* nothing and does not end the request with an error.
C12_MuteIdempotent ==
    [][\A p \in Procs :
         /\ (pc'[p] = "done" /\ loc'[p].reply = "muted")
            => /\ members'[Me(loc'[p])].muted
               /\ ConversationsOf(conversations', Me(loc'[p])) = {}
         /\ (/\ Acts(p) /\ pc[p] \notin {"idle", "done"} /\ loc[p].cmd = "mute"
             /\ members[Me(loc[p])].muted
             /\ ConversationsOf(conversations, Me(loc[p])) = {})
            => members' = members /\ conversations' = conversations
         /\ (/\ Acts(p) /\ pc[p] = "mute_del"
             /\ Head(loc[p].todo) \notin conversations
             /\ loc'[p].failedAt = "")
            => conversations' = conversations /\ loc'[p].reply # "error"]_vars

\* two mutes of one member in a row: the first deleted the member's two
\* conversations, the second began when the first had completed
C12_Witness ==
    \E p, q \in Procs :
        /\ p # q
        /\ pc[p] = "done" /\ loc[p].reply = "muted" /\ Len(loc[p].cur) = 2
        /\ pc[q] = "done" /\ loc[q].reply = "muted" /\ loc[q].member = loc[p].member
        /\ loc[q].startMembers[Me(loc[q])].muted
        /\ ConversationsOf(loc[q].startConvs, Me(loc[q])) = {}
        /\ members[Me(loc[p])].muted
        /\ ConversationsOf(conversations, Me(loc[p])) = {}

Rejections == {"usage", "parse_error", "not_us", "already"}

\* C13: a request whose sender resolves to no member gets the "not a member"
\* reply from handle_command whatever the command (stop from the opt-out
\* webhook included), in one step that changes no table and sends nothing.
C13_NotMemberNoEffect ==
    [][(/\ pc[1] = "idle" /\ pc'[1] # "idle"
        /\ loc'[1].member = {}
        /\ loc'[1].optOut \in {"", "STOP"})
       => /\ pc'[1] = "done"
          /\ loc'[1].reply = "not_member"
          /\ loc'[1].out = {}
          /\ tables' = tables]_vars

\* a stop from a phone number that belongs to no member, after an invitation
C13_Witness ==
    /\ pc[1] = "done"
    /\ loc[1].cmd = "stop"
    /\ loc[1].member = {}
    /\ loc[1].reply = "not_member"
    /\ invitations # {}
    /\ inviteCount = loc[1].startCount
    /\ members = loc[1].startMembers

\* C14: an invite that is rejected (no argument, unparsable number, number
\* outside the US, invitee among the last N_PEOPLE participants) ends with
\* the counter, the ledger, the directory and the conversations as they were
\* when the request arrived, and sends no welcome message.
C14_RejectedInviteNoEffect ==
    (pc[1] = "done" /\ loc[1].cmd = "invite" /\ loc[1].reply \in Rejections)
    => /\ inviteCount = loc[1].startCount
       /\ invitations = loc[1].startLedger
       /\ members = loc[1].startMembers
       /\ conversations = loc[1].startConvs
       /\ loc[1].out = {}

\* an invite of a member who is already among the recent participants
C14_Witness ==
    /\ pc[1] = "done"
    /\ loc[1].cmd = "invite"
    /\ loc[1].reply = "already"
    /\ loc[1].invitee # {}
    /\ loc[1].invitee \subseteq last_n(N_PEOPLE)
    /\ loc[1].invitee # loc[1].member
    /\ conversations # {}

\* C15: when a stop from a member has been processed to its end, the
\* directory holds no item with the member's id, in any form, and the counter
\* is 1 less than when the request arrived.
C15_StopRemovesRecord ==
    (/\ pc[1] = "done" /\ loc[1].cmd = "stop" /\ loc[1].optOut \in {"", "STOP"}
     /\ loc[1].member # {})
    => /\ get_by_id(Me(loc[1])) = {}
       /\ Me(loc[1]) \notin DOMAIN members
       /\ inviteCount = loc[1].startCount - 1

\* C17: two plain messages of one member, both arrived while the member had
\* no conversation and processed interleaved at the storage calls, leave the
\* member a participant of at most one conversation.
C17_SameMemberOnePairing ==
    \A p, q \in Procs :
        (/\ p # q
         /\ pc[p] = "done" /\ pc[q] = "done"
         /\ loc[p].member # {}
         /\ loc[p].member = loc[q].member
         /\ ConversationsOf(loc[p].startConvs, Me(loc[p])) = {}
         /\ ConversationsOf(loc[q].startConvs, Me(loc[p])) = {})
        => Cardinality(ConversationsOf(conversations, Me(loc[p]))) <= 1

\* C18: a message forwarded within an existing conversation sets that
\* conversation's lastMessage to the time of the forward, so that the
\* conversation cannot be found stale during the 5 minutes that follow.
C18_ForwardRefreshes ==
    [][\A p \in Procs :
         (/\ pc[p] = "def_getother" /\ pc'[p] = "done"
          /\ ~loc[p].newConv
          /\ \E o \in loc'[p].out : o.kind = "text")
         => \E c \in conversations' :
               c.id = loc[p].cur[1].id /\ c.lastMessage = now]_vars

\* C19: when a stop from a member has been processed to its end, no
\* conversation has the removed member as person1 or person2.
C19_StopDeletesConversations ==
    (/\ pc[1] = "done" /\ loc[1].cmd = "stop" /\ loc[1].optOut \in {"", "STOP"}
     /\ loc[1].member # {})
    => ConversationsOf(conversations, Me(loc[1])) = {}

\* C16: an edge recorded between two other members never raises the rank of
\* member m above 0, so neither does any sequence of such calls.
C16_RankNeverRaisedByOthers ==
    [][\A m \in 1..MaxMembers :
         (probe'.applied /\ m \notin probe'.result)
         => invite_position(m, 0)' <= invite_position(m, 0)]_vars

\* member m has an edge, and the last call recorded a newer edge between others
C16_Witness ==
    \E m \in 1..MaxMembers :
        /\ probe.applied
        /\ m \notin probe.result
        /\ invite_position(m, 0) > 0
        /\ probe.k > invite_position(m, 0)
        /\ \E e \in invitations : e.number = probe.k /\ {e.inviter, e.invitee} = probe.result

\* C20: when a next from a member has been processed to its end, every
\* conversation the member had is deleted, the text was forwarded to nobody,
\* the partner found is not the other participant of any conversation the
\* command deleted, and without a partner the member has no conversation.
C20_NextExcludesDeleted ==
    (pc[1] = "done" /\ loc[1].cmd = "next" /\ loc[1].member # {})
    => LET me == Me(loc[1])
           had == ConversationsOf(loc[1].startConvs, me)
       IN  /\ had \cap conversations = {}
           /\ \A o \in loc[1].out : o.kind # "text"
           /\ loc[1].mid \cap {other_person(c, me) : c \in had} = {}
           /\ loc[1].reply = "no_one" => ConversationsOf(conversations, me) = {}

\* C21: the counter moves only by +2 in an invite and by -1 in a stop, the
\* ledger only in an invite; report, spot, intro, help, mute, next, a plain
\* message and every rejected invite end with the counter and the ledger as
\* they were, a successful invite with the counter 2 higher and a stop with
\* the counter 1 lower.
C21_CounterFrame ==
    [][/\ inviteCount' # inviteCount
          => \/ loc[1].cmd = "invite" /\ inviteCount' = inviteCount + 2
             \/ loc[1].cmd = "stop" /\ inviteCount' = inviteCount - 1
       /\ invitations' # invitations => loc[1].cmd = "invite"
       /\ (pc'[1] = "done" /\ loc'[1].member # {} /\ loc'[1].optOut \in {"", "STOP"})
          => LET l == loc'[1]
             IN  /\ (l.cmd \notin {"invite", "stop"} \/ l.reply \in Rejections)
                    => inviteCount' = l.startCount /\ invitations' = l.startLedger
                 /\ (l.cmd = "invite" /\ l.reply = "invited")
                    => inviteCount' = l.startCount + 2
                 /\ l.cmd = "stop"
                    => inviteCount' = l.startCount - 1 /\ invitations' = l.startLedger]_vars

\* a plain message that led to a new pairing, after an invitation
C21_Witness ==
    /\ pc[1] = "done"
    /\ loc[1].cmd = "msg"
    /\ loc[1].newConv
    /\ loc[1].reply = "now_talking"
    /\ conversations # loc[1].startConvs
    /\ inviteCount = 2
    /\ inviteCount = loc[1].startCount
    /\ invitations # {}
    /\ invitations = loc[1].startLedger

SpotOf(m) == spot_position(inviteCount, invite_position(m, min_sequence(inviteCount)))

\* C22: right after a successful invite of somebody else, processed alone,
\* the spot of the invitee is 1 and the spot of the inviter is 2, as the
\* welcome message and the reply say.
C22_SpotsAfterInvite ==
    (/\ pc[1] = "done" /\ loc[1].cmd = "invite" /\ loc[1].reply = "invited"
     /\ loc[1].invitee # loc[1].member)
    => /\ SpotOf(TheOne(loc[1].invitee)) = 1
       /\ SpotOf(Me(loc[1])) = 2

\* C23: the position that spot and intro report to a member who is in the
\* ledger lies between 1 and the counter value it is reported against.
C23_SpotInRange ==
    (/\ pc[1] = "done" /\ loc[1].reply \in {"spot", "intro"}
     /\ \E e \in invitations : Me(loc[1]) \in {e.inviter, e.invitee})
    => /\ loc[1].position >= 1
       /\ loc[1].position <= loc[1].count

\* C24: the counter is never negative, and two stops of one member, both of
\* which resolved the member before it was deleted, end with the counter
\* exactly 1 below its value when the first of them arrived.
C24_RemovalCountedOnce ==
    /\ inviteCount >= 0
    /\ \A p, q \in Procs :
         (/\ p # q
          /\ pc[p] = "done" /\ pc[q] = "done"
          /\ loc[p].cmd = "stop" /\ loc[q].cmd = "stop"
          /\ loc[p].member # {}
          /\ loc[p].member = loc[q].member)
         => inviteCount = Max(loc[p].startCount, loc[q].startCount) - 1

====
